---- MODULE Spec2Model ----
(***************************************************************************)
(* A model of session_tunes.py: the scraper of tune pages of               *)
(* thesession.org.  Python strings are sequences of one-character strings, *)
(* Python values are tagged records, and an exception that leaves a        *)
(* function is the tagged value Raise(name).                               *)
(***************************************************************************)
EXTENDS Integers, Sequences, FiniteSets, TLC

VARIABLES
    pc,        \* position of the running call
    arg,       \* the argument of a call of one of the parsers
    result,    \* what that call returned or raised
    pages,     \* get_session_tunes: parameter pages
    start,     \* get_session_tunes: parameter start
    library,   \* get_session_tunes: parameter library
    tune_list, \* get_session_tunes: the list being built
    num,       \* get_session_tunes: the loop variable
    attempts,  \* get_soup: attempts
    awaiting,  \* get_soup: awaiting_response
    r,         \* get_soup: the response, or Unbound
    requests,  \* number of requests.get calls of the running get_soup call
    soups,     \* the get_soup calls of the running get_session_tunes call
    printed,   \* the line get_session_tunes printed
    outcome,   \* how get_session_tunes / main ended
    caller,    \* who called get_session_tunes: "none" (a direct call) or "main"
    runs,      \* how many times the script has been started
    batches,   \* main: the batches still to run
    file,      \* the content of tunes.json
    merge      \* main: the last merge (rows read, rows of the batch, raised)

vars == <<pc, arg, result, pages, start, library, tune_list, num, attempts,
          awaiting, r, requests, soups, printed, outcome, caller, runs, batches,
          file, merge>>

(***************************************************************************)
(* Python values                                                           *)
(***************************************************************************)
PyNone == [kind |-> "None", val |-> 0]
PyInt(n) == [kind |-> "int", val |-> n]
PyStr(s) == [kind |-> "str", val |-> s]
PyList(l) == [kind |-> "list", val |-> l]
PyTuple(t) == [kind |-> "tuple", val |-> t]
Raise(e) == [kind |-> "raise", val |-> e]

\* bounds of the generated inputs
MaxTextLen == 3

Digits == {"0", "1", "2", "3", "4", "5", "6", "7", "8", "9"}

DigitVal(c) ==
    CASE c = "0" -> 0 [] c = "1" -> 1 [] c = "2" -> 2 [] c = "3" -> 3
      [] c = "4" -> 4 [] c = "5" -> 5 [] c = "6" -> 6 [] c = "7" -> 7
      [] c = "8" -> 8 [] c = "9" -> 9

\* every sequence over the alphabet A of length at most n
SeqsUpTo(A, n) == UNION {[1..k -> A] : k \in 0..n}

\* str.replace(c, ''), for a one-character c
RECURSIVE RemoveChar(_, _)
RemoveChar(s, c) ==
    IF s = <<>> THEN <<>>
    ELSE IF Head(s) = c THEN RemoveChar(Tail(s), c)
    ELSE <<Head(s)>> \o RemoveChar(Tail(s), c)

\* int(s) of a string: the value when s is a non-empty string of
\* digits, and ValueError otherwise
RECURSIVE DigitsValue(_)
DigitsValue(s) ==
    IF s = <<>> THEN 0
    ELSE 10 * DigitsValue(SubSeq(s, 1, Len(s) - 1)) + DigitVal(s[Len(s)])

PyIntOf(s) ==
    IF s # <<>> /\ \A i \in 1..Len(s) : s[i] \in Digits
    THEN PyInt(DigitsValue(s))
    ELSE Raise("ValueError")

(***************************************************************************)
(* parse_count                                                             *)
(***************************************************************************)
\* re.search('[\d,]+', text): the leftmost, longest run of digits and
\* commas, as <<first, last>>, or <<0, 0>> when there is no match
CountRun(text) ==
    LET hits == {i \in 1..Len(text) : text[i] \in Digits \cup {","}}
    IN IF hits = {} THEN <<0, 0>>
       ELSE LET first == CHOOSE i \in hits : \A j \in hits : i <= j
                last == CHOOSE j \in first..Len(text) :
                          /\ \A k \in first..j : k \in hits
                          /\ (j + 1) \notin hits
            IN <<first, last>>

parse_count(text) ==
    LET run == CountRun(text)
    IN IF run = <<0, 0>>
       THEN PyNone   \* None.group(): AttributeError, caught
       ELSE LET num_string == SubSeq(text, run[1], run[2])
                n == PyIntOf(RemoveChar(num_string, ","))
            IN IF n.kind = "raise" THEN PyNone   \* ValueError, caught
               ELSE n

(***************************************************************************)
(* The parsed page (the BeautifulSoup object).  Only what the parsers look *)
(* at is kept: the h1 (the text before its first hyperlink, that           *)
(* hyperlink's text, the text after it), the p of class info, the strings  *)
(* of the other hyperlinks and paragraphs in document order, the first     *)
(* details element, the element of class stats with the data-tuneid of     *)
(* each of its hyperlinks, and the number of div.setting-sheetmusic.       *)
(* The fixed phrases the regular expressions look for are single symbols   *)
(* of the texts.  isdoc = FALSE is an argument that is no document (None). *)
(***************************************************************************)
AlsoKnownAs == "Also known as\n"
OtherTuneCollections == " other tune collections"
TuneSets == " tune sets"
HasBeenAddedTo == "has been added to "
Tunebooks == " tunebooks"

NoH1 == [present |-> FALSE, pre |-> <<>>, link |-> FALSE, label |-> <<>>, post |-> <<>>]
H1(pre, label, post) ==
    [present |-> TRUE, pre |-> pre, link |-> TRUE, label |-> label, post |-> post]
H1NoLink(pre) ==
    [present |-> TRUE, pre |-> pre, link |-> FALSE, label |-> <<>>, post |-> <<>>]

NoInfo == [present |-> FALSE, text |-> <<>>]
NoDetails == [present |-> FALSE, summary |-> FALSE, link |-> FALSE, text |-> <<>>]
NoStats == [present |-> FALSE, links |-> <<>>]
NoAttr == [has |-> FALSE, v |-> <<>>]
Attr(v) == [has |-> TRUE, v |-> v]

EmptySoup ==
    [isdoc |-> TRUE, h1 |-> NoH1, info |-> NoInfo, anchors |-> <<>>,
     paras |-> <<>>, details |-> NoDetails, stats |-> NoStats, sheetmusic |-> 0]
NotASoup == [EmptySoup EXCEPT !.isdoc = FALSE]

Chars(s) == {s[i] : i \in 1..Len(s)}

\* str.rstrip(chars): drops the trailing characters that occur in chars
RECURSIVE rstrip(_, _)
rstrip(s, chars) ==
    IF s # <<>> /\ s[Len(s)] \in Chars(chars)
    THEN rstrip(SubSeq(s, 1, Len(s) - 1), chars)
    ELSE s

\* Tag.text of the h1: the text of all its descendants
H1Text(h1) == h1.pre \o h1.label \o h1.post

ErrorStr == <<"E", "r", "r", "o", "r">>
H1ErrorStr == <<"H", "1", " ">> \o ErrorStr

(***************************************************************************)
(* parse_h1                                                                *)
(***************************************************************************)
parse_h1(soup_obj) ==
    IF ~soup_obj.isdoc
    THEN PyTuple(<<H1ErrorStr, H1ErrorStr>>)  \* soup_obj.find raises
    ELSE LET h1 == soup_obj.h1   \* find('h1'): the tag, or None
             tune_type == IF h1.present /\ h1.link THEN h1.label
                          ELSE ErrorStr   \* AttributeError on None
             tune_name == IF h1.present
                          THEN rstrip(rstrip(H1Text(h1), tune_type), <<" ">>)
                          ELSE ErrorStr   \* None.text: AttributeError
         IN PyTuple(<<tune_type, tune_name>>)

(***************************************************************************)
(* parse_paragraphs                                                        *)
(***************************************************************************)
\* str.replace(phrase, ''), the phrase being one symbol of the text
RemovePhrase(s, phrase) == RemoveChar(s, phrase)

DigitComma == Digits \cup {","}

\* re.search('[\d,]+ other tune collections', s, IGNORECASE)
MatchesCollections(s) ==
    \E i \in 2..Len(s) : s[i] = OtherTuneCollections /\ s[i - 1] \in DigitComma

\* re.search('[\d,] tune sets', s, IGNORECASE)
MatchesTuneSets(s) ==
    \E i \in 2..Len(s) : s[i] = TuneSets /\ s[i - 1] \in DigitComma

\* re.search('has been added to [\d,]+ tunebooks', s, IGNORECASE)
MatchesTunebooks(s) ==
    \E i \in 1..Len(s) : \E j \in (i + 2)..Len(s) :
        /\ s[i] = HasBeenAddedTo
        /\ s[j] = Tunebooks
        /\ \A k \in (i + 1)..(j - 1) : s[k] \in DigitComma

\* soup.find(tag, string=regex).text, then parse_count: hits are the
\* positions, in document order, of the tags whose string matches; 0 when
\* no tag matches (None.text: AttributeError, caught)
FindCount(strings, hits) ==
    IF hits = {} THEN PyInt(0)
    ELSE parse_count(strings[CHOOSE i \in hits : \A j \in hits : i <= j])

Hits(strings, regex) ==
    {i \in 1..Len(strings) :
        CASE regex = "collections" -> MatchesCollections(strings[i])
          [] regex = "tune_sets" -> MatchesTuneSets(strings[i])
          [] regex = "tune_book" -> MatchesTunebooks(strings[i])}

parse_paragraphs(soup_obj) ==
    IF ~soup_obj.isdoc
    THEN PyTuple(<<PyStr(<<>>), PyInt(0), PyInt(0), PyInt(0)>>)
    ELSE LET aliases == IF soup_obj.info.present
                        THEN RemovePhrase(soup_obj.info.text, AlsoKnownAs)
                        ELSE <<>>
             anchors == soup_obj.anchors
             paras == soup_obj.paras
             collections == FindCount(anchors, Hits(anchors, "collections"))
             tune_sets == FindCount(anchors, Hits(anchors, "tune_sets"))
             tune_books == FindCount(paras, Hits(paras, "tune_book"))
         IN PyTuple(<<PyStr(aliases), collections, tune_sets, tune_books>>)

(***************************************************************************)
(* parse_summary                                                           *)
(***************************************************************************)
parse_summary(soup_obj) ==
    LET d == soup_obj.details
    IN IF ~soup_obj.isdoc \/ ~d.present
       THEN PyInt(0)         \* find('details') is None: AttributeError
       ELSE IF ~d.summary \/ ~d.link
       THEN PyInt(0)         \* summary or summary.find('a') is None
       ELSE parse_count(d.text)

(***************************************************************************)
(* parse_stats                                                             *)
(***************************************************************************)
\* [int(tune['data-tuneid']) for tune in links]: the first hyperlink
\* without the attribute raises KeyError, the first whose value is no
\* number raises ValueError
RECURSIVE TuneIds(_)
TuneIds(links) ==
    IF links = <<>> THEN PyList(<<>>)
    ELSE LET a == Head(links)
             n == IF a.has THEN PyIntOf(a.v) ELSE Raise("KeyError")
         IN IF n.kind = "raise" THEN n
            ELSE LET rest == TuneIds(Tail(links))
                 IN IF rest.kind = "raise" THEN rest
                    ELSE PyList(<<n.val>> \o rest.val)

parse_stats(soup_obj) ==
    IF ~soup_obj.isdoc \/ ~soup_obj.stats.present
    THEN PyNone     \* AttributeError, caught
    ELSE TuneIds(soup_obj.stats.links)   \* KeyError, ValueError: not caught

(***************************************************************************)
(* parse_tabs                                                              *)
(***************************************************************************)
parse_tabs(soup_obj) ==
    IF ~soup_obj.isdoc THEN PyInt(0) ELSE PyInt(soup_obj.sheetmusic)

(***************************************************************************)
(* strain_soup                                                             *)
(***************************************************************************)
strain_soup(soup, tune_id) ==
    LET h == parse_h1(soup)
        recordings == parse_summary(soup)
        recorded_with == parse_stats(soup)
        p == parse_paragraphs(soup)
        tabs == parse_tabs(soup)
    IN IF recorded_with.kind = "raise" THEN recorded_with
       ELSE [kind |-> "dict",
             val |-> [id |-> tune_id,
                      name |-> h.val[2],
                      aliases |-> p.val[1].val,
                      type |-> h.val[1],
                      set_pairings |-> recorded_with,
                      tabs |-> tabs,
                      recordings |-> recordings,
                      collections |-> p.val[2],
                      sets |-> p.val[3],
                      books |-> p.val[4]]]

(***************************************************************************)
(* The parsers called on their own: the arguments are drawn from bounded   *)
(* sets of texts and pages, and each action is one call.                   *)
(***************************************************************************)
MaxH1Len == 2
MaxLinks == 2
MaxAnchors == 2
MaxTabs == 2

CountAlphabet == {"0", "1", ",", "x"}
RecordingsStr == <<" ", "r", "e", "c", "o", "r", "d", "i", "n", "g", "s">>
CountTexts ==
    SeqsUpTo(CountAlphabet, MaxTextLen)
        \cup {<<"1", ",", "2", "3", "4">> \o RecordingsStr,
              <<"R", "e", "e", "l", "s", ",", " ", "1", "2">> \o RecordingsStr}

H1Alphabet == {"a", "b", " "}
KeshJig == H1(<<"T", "h", "e", " ", "K", "e", "s", "h", " ">>, <<"j", "i", "g">>, <<>>)
AFigForAKiss ==
    H1(<<"A", " ", "F", "i", "g", " ", "F", "o", "r", " ", "A", " ", "K", "i", "s", "s", " ">>,
       <<"s", "l", "i", "p", " ", "j", "i", "g">>, <<>>)
ReelTheTune ==
    H1(<<>>, <<"R", "e", "e", "l">>, <<" ", "T", "h", "e", " ", "T", "u", "n", "e">>)
H1s ==
    {H1(pre, label, post) : pre \in SeqsUpTo(H1Alphabet, MaxH1Len),
                            label \in SeqsUpTo(H1Alphabet, MaxH1Len),
                            post \in SeqsUpTo(H1Alphabet, MaxH1Len)}
        \cup {H1NoLink(pre) : pre \in SeqsUpTo({"a", "r", " "}, MaxH1Len)}
        \cup {NoH1, KeshJig, AFigForAKiss, ReelTheTune}
H1Soups == {[EmptySoup EXCEPT !.h1 = h] : h \in H1s} \cup {NotASoup}

AttrValues == {NoAttr, Attr(<<"7">>), Attr(<<"1", "2">>), Attr(<<"x">>)}
StatsOptions ==
    {NoStats} \cup {[present |-> TRUE, links |-> l] : l \in SeqsUpTo(AttrValues, MaxLinks)}
StatsSoups == {[EmptySoup EXCEPT !.stats = st] : st \in StatsOptions} \cup {NotASoup}

SummaryTexts ==
    {<<"1", "2">> \o RecordingsStr, <<"1", ",", "2", "3", "4">> \o RecordingsStr,
     RecordingsStr, <<",", " ", "5">>}
DetailsOptions ==
    {NoDetails,
     [present |-> TRUE, summary |-> FALSE, link |-> FALSE, text |-> <<>>],
     [present |-> TRUE, summary |-> TRUE, link |-> FALSE, text |-> <<>>]}
        \cup {[present |-> TRUE, summary |-> TRUE, link |-> TRUE, text |-> t] :
                t \in SummaryTexts}
SummarySoups == {[EmptySoup EXCEPT !.details = d] : d \in DetailsOptions} \cup {NotASoup}

AnchorTexts ==
    {<<"3", OtherTuneCollections>>, <<",", OtherTuneCollections>>,
     <<"1", "5", TuneSets>>, <<"a", ",", " ", "4", TuneSets>>, <<"h", "o", "m", "e">>}
ParaTexts ==
    {<<HasBeenAddedTo, "2", "1", Tunebooks>>, <<HasBeenAddedTo, ",", Tunebooks>>,
     <<HasBeenAddedTo, Tunebooks>>}
InfoOptions ==
    {NoInfo, [present |-> TRUE, text |-> <<AlsoKnownAs, "A", ",", " ", "B">>]}
ParagraphSoups ==
    {[EmptySoup EXCEPT !.info = i, !.anchors = a, !.paras = p] :
        i \in InfoOptions, a \in SeqsUpTo(AnchorTexts, MaxAnchors),
        p \in SeqsUpTo(ParaTexts, 1)} \cup {NotASoup}

TabsSoups == {[EmptySoup EXCEPT !.sheetmusic = n] : n \in 0..MaxTabs} \cup {NotASoup}

\* whole pages, for strain_soup
PageStats ==
    {NoStats, [present |-> TRUE, links |-> <<>>],
     [present |-> TRUE, links |-> <<Attr(<<"7">>), Attr(<<"1", "2">>)>>],
     [present |-> TRUE, links |-> <<Attr(<<"7">>), NoAttr>>]}
Pages ==
    {[isdoc |-> TRUE, h1 |-> h, info |-> i, anchors |-> a, paras |-> p,
      details |-> d, stats |-> st, sheetmusic |-> n] :
        h \in {NoH1, KeshJig}, i \in InfoOptions,
        a \in SeqsUpTo(AnchorTexts, 1), p \in SeqsUpTo(ParaTexts, 1),
        d \in DetailsOptions, st \in PageStats, n \in {0, MaxTabs}}
StrainArgs == {[soup |-> s, tune_id |-> i] : s \in Pages, i \in {1}}

Unbound == [kind |-> "unbound", status |-> 0, soup |-> EmptySoup]
NoPrint == [count |-> -1, first |-> 0, last |-> 0]
NoMerge == [read |-> <<>>, new |-> <<>>, raised |-> "not run"]
NotEnded == [kind |-> "running", val |-> ""]
Returned == [kind |-> "returned", val |-> ""]

\* no get_session_tunes or main call is running
BatchIdle ==
    /\ pages = 0 /\ start = 0 /\ library = PyNone /\ tune_list = <<>>
    /\ num = 0 /\ attempts = 0 /\ awaiting = FALSE /\ r = Unbound
    /\ requests = 0 /\ soups = <<>> /\ printed = NoPrint /\ outcome = NotEnded
    /\ caller = "none" /\ runs = 0
    /\ batches = <<>> /\ file = <<>> /\ merge = NoMerge

batchVars == <<pages, start, library, tune_list, num, attempts, awaiting, r,
               requests, soups, printed, outcome, caller, runs, batches, file,
               merge>>

InitParsers ==
    /\ \/ pc = "parse_count" /\ arg \in CountTexts
       \/ pc = "parse_h1" /\ arg \in H1Soups
       \/ pc = "parse_paragraphs" /\ arg \in ParagraphSoups
       \/ pc = "parse_summary" /\ arg \in SummarySoups
       \/ pc = "parse_stats" /\ arg \in StatsSoups
       \/ pc = "parse_tabs" /\ arg \in TabsSoups
       \/ pc = "strain_soup" /\ arg \in StrainArgs
    /\ result = PyNone
    /\ BatchIdle

Return(fn, value) ==
    /\ pc = fn
    /\ result' = value
    /\ pc' = "done:" \o fn
    /\ UNCHANGED <<arg, batchVars>>

CallParseCount == Return("parse_count", parse_count(arg))
CallParseH1 == Return("parse_h1", parse_h1(arg))
CallParseParagraphs == Return("parse_paragraphs", parse_paragraphs(arg))
CallParseSummary == Return("parse_summary", parse_summary(arg))
CallParseStats == Return("parse_stats", parse_stats(arg))
CallParseTabs == Return("parse_tabs", parse_tabs(arg))
CallStrainSoup == Return("strain_soup", strain_soup(arg.soup, arg.tune_id))

NextParsers ==
    \/ CallParseCount
    \/ CallParseH1
    \/ CallParseParagraphs
    \/ CallParseSummary
    \/ CallParseStats
    \/ CallParseTabs
    \/ CallStrainSoup

SpecParsers == InitParsers /\ [][NextParsers]_vars

(***************************************************************************)
(* get_soup and get_session_tunes, step by step.  The network answers each *)
(* requests.get either with a transport failure (an exception) or with a   *)
(* response: a status and, for a page that exists, its document.           *)
(***************************************************************************)
MaxPages == 3
MaxStart == 2

Response(status, soup) == [kind |-> "response", status |-> status, soup |-> soup]

GoodPage ==
    [EmptySoup EXCEPT
        !.h1 = KeshJig,
        !.stats = [present |-> TRUE, links |-> <<Attr(<<"7">>), Attr(<<"1", "2">>)>>],
        !.details = [present |-> TRUE, summary |-> TRUE, link |-> TRUE,
                     text |-> <<"1", "2">> \o RecordingsStr],
        !.sheetmusic = 1]
\* a page one of whose stats hyperlinks has no data-tuneid
BadStatsPage ==
    [GoodPage EXCEPT !.stats = [present |-> TRUE, links |-> <<Attr(<<"7">>), NoAttr>>]]
NetPages == {GoodPage, BadStatsPage}
Responses == {Response(200, p) : p \in NetPages} \cup {Response(404, EmptySoup)}

\* the set of records a library argument may hold
LibraryRecord == strain_soup(GoodPage, 9).val
LibraryArgs ==
    {PyNone, PyList(<<>>), PyList(<<LibraryRecord>>), PyTuple(<<LibraryRecord>>)}

\* while awaiting_response and attempts < 2
LoopCond(aw, att) == aw /\ att < 2

\* r.raise_for_status() inside try / except: / raise requests.HTTPError.
\* "ok" when the status is no error; an unbound r raises UnboundLocalError
\* and a 4xx or 5xx status raises HTTPError, and the bare except turns
\* both into requests.HTTPError
StatusCheckNarrowExcept(resp) ==
    IF resp.kind = "unbound" THEN "UnboundLocalError"
    ELSE IF resp.status >= 400 /\ resp.status < 600 THEN "HTTPError"
    ELSE "ok"
StatusCheck(resp) ==
    IF resp.kind = "unbound" THEN "HTTPError"
    ELSE IF resp.status >= 400 /\ resp.status < 600 THEN "HTTPError"
    ELSE "ok"

soupVars == <<attempts, awaiting, r, requests>>
mainVars == <<caller, runs, batches, file, merge>>
parserVars == <<arg, result>>

\* lines 71-78: the library argument
GstEnter ==
    /\ pc = "gst:start"
    /\ IF library.kind = "None"
       THEN tune_list' = <<>> /\ pc' = "gst:loop" /\ UNCHANGED outcome
       ELSE IF library.kind = "list"
       THEN tune_list' = library.val /\ pc' = "gst:loop" /\ UNCHANGED outcome
       ELSE /\ outcome' = Raise("AssertionError")
            /\ pc' = "raised"
            /\ UNCHANGED tune_list
    /\ num' = start
    /\ soups' = <<>>
    /\ UNCHANGED <<pages, start, library, printed, soupVars, mainVars, parserVars>>

\* line 81 and line 86: the next identifier; get_soup is entered
GstIterate ==
    /\ pc = "gst:loop"
    /\ num < start + pages
    /\ pc' = "soup:try"
    /\ attempts' = 0
    /\ awaiting' = TRUE
    /\ r' = Unbound
    /\ requests' = 0
    /\ UNCHANGED <<pages, start, library, tune_list, num, soups, printed, outcome,
                   mainVars, parserVars>>

\* lines 36-41: requests.get raises
RequestFails ==
    /\ pc = "soup:try"
    /\ LoopCond(awaiting, attempts)
    /\ requests' = requests + 1
    /\ attempts' = attempts + 1
    /\ UNCHANGED <<pc, awaiting, r, pages, start, library, tune_list, num, soups,
                   printed, outcome, mainVars, parserVars>>

\* lines 36-39: requests.get returns a response
RequestAnswers ==
    /\ pc = "soup:try"
    /\ LoopCond(awaiting, attempts)
    /\ requests' = requests + 1
    /\ \E resp \in Responses : r' = resp
    /\ awaiting' = FALSE
    /\ UNCHANGED <<pc, attempts, pages, start, library, tune_list, num, soups,
                   printed, outcome, mainVars, parserVars>>

SoupEntry(res) ==
    [id |-> num, result |-> res, requests |-> requests, failures |-> attempts]

\* lines 44-47 and 85-88: get_soup raises; get_session_tunes catches
\* requests.HTTPError and goes on, and lets any other exception through
GetSoupRaises ==
    /\ pc = "soup:try"
    /\ ~LoopCond(awaiting, attempts)
    /\ StatusCheck(r) # "ok"
    /\ soups' = Append(soups, SoupEntry(StatusCheck(r)))
    /\ IF StatusCheck(r) = "HTTPError"
       THEN pc' = "gst:loop" /\ num' = num + 1 /\ UNCHANGED outcome
       ELSE pc' = "raised" /\ outcome' = Raise(StatusCheck(r)) /\ UNCHANGED num
    /\ UNCHANGED <<pages, start, library, tune_list, printed, soupVars, mainVars,
                   parserVars>>

\* lines 49-51: get_soup returns the parsed page
GetSoupReturns ==
    /\ pc = "soup:try"
    /\ ~LoopCond(awaiting, attempts)
    /\ StatusCheck(r) = "ok"
    /\ soups' = Append(soups, SoupEntry("soup"))
    /\ pc' = "gst:strain"
    /\ UNCHANGED <<pages, start, library, tune_list, num, printed, outcome,
                   soupVars, mainVars, parserVars>>

\* lines 91-92: strain_soup returns a record, which is appended
StrainAppends ==
    /\ pc = "gst:strain"
    /\ strain_soup(r.soup, num).kind = "dict"
    /\ tune_list' = Append(tune_list, strain_soup(r.soup, num).val)
    /\ num' = num + 1
    /\ pc' = "gst:loop"
    /\ UNCHANGED <<pages, start, library, soups, printed, outcome, soupVars,
                   mainVars, parserVars>>

\* line 91: strain_soup raises, and nothing catches it
StrainRaises ==
    /\ pc = "gst:strain"
    /\ strain_soup(r.soup, num).kind = "raise"
    /\ outcome' = strain_soup(r.soup, num)
    /\ pc' = "raised"
    /\ UNCHANGED <<pages, start, library, tune_list, num, soups, printed,
                   soupVars, mainVars, parserVars>>

\* lines 94-96: the report and the return
GstReturn ==
    /\ pc = "gst:loop"
    /\ ~(num < start + pages)
    /\ printed' = [count |-> Len(tune_list), first |-> start,
                   last |-> start + pages - 1]
    /\ IF caller = "main"
       THEN pc' = "main:merge" /\ UNCHANGED outcome
       ELSE pc' = "done:gst" /\ outcome' = Returned
    /\ UNCHANGED <<pages, start, library, tune_list, num, soups, soupVars,
                   mainVars, parserVars>>

InitBatch ==
    /\ pc = "gst:start"
    /\ pages \in 0..MaxPages
    /\ start \in 1..MaxStart
    /\ library \in LibraryArgs
    /\ tune_list = <<>> /\ num = 0 /\ attempts = 0 /\ awaiting = FALSE
    /\ r = Unbound /\ requests = 0 /\ soups = <<>> /\ printed = NoPrint
    /\ outcome = NotEnded /\ caller = "none" /\ runs = 0
    /\ batches = <<>> /\ file = <<>> /\ merge = NoMerge
    /\ arg = <<>> /\ result = PyNone

NextBatch ==
    \/ GstEnter
    \/ GstIterate
    \/ RequestFails
    \/ RequestAnswers
    \/ GetSoupRaises
    \/ GetSoupReturns
    \/ StrainAppends
    \/ StrainRaises
    \/ GstReturn

SpecBatch == InitBatch /\ [][NextBatch]_vars

(***************************************************************************)
(* main: one get_session_tunes call per batch, each followed by the merge  *)
(* into tunes.json.  A data frame is the sequence of its rows, the id of a *)
(* row being its index label.  tunes.json holds what DataFrame.to_json     *)
(* writes by default (orient='columns'): for each column an object from    *)
(* index label to value, which needs the index labels to be distinct.      *)
(* number_tunes and batch_size are 24000 and 250 in main; the model runs   *)
(* the same loop over fewer, shorter batches.                              *)
(***************************************************************************)
number_tunes == 5
batch_size == 2
starting_point == 1
MaxRuns == 2

\* list(range(first, stop, step)), for step > 0
RangeList(first, stop, step) ==
    LET n == IF stop <= first THEN 0 ELSE (stop - first + step - 1) \div step
    IN [i \in 1..n |-> first + (i - 1) * step]

Columns ==
    {"name", "aliases", "type", "set_pairings", "tabs", "recordings",
     "collections", "sets", "books"}

Ids(rows) == [i \in 1..Len(rows) |-> rows[i].id]
IsUnique(seq) == \A i, j \in 1..Len(seq) : seq[i] = seq[j] => i = j

\* DataFrame.to_json(): column by column, each value under its index label
to_json(rows) ==
    [c \in Columns |-> [i \in 1..Len(rows) |-> [key |-> rows[i].id, value |-> rows[i][c]]]]

\* pd.read_json(): the rows again, in the order of the labels of the file
read_json(f) ==
    [i \in 1..Len(f["name"]) |->
        [c \in Columns \cup {"id"} |->
            IF c = "id" THEN f["name"][i].key ELSE f[c][i].value]]

\* pd.concat([library, indexed_df]): the rows of the one, then of the other
concatUpsert(lib, new) ==
    SelectSeq(lib, LAMBDA row : \A i \in 1..Len(new) : new[i].id # row.id) \o new
concat(lib, new) == lib \o new

gstVars == <<pages, start, library, tune_list, num, soups, printed>>

\* lines 303-307
MainStart ==
    /\ pc = "main:start"
    /\ batches' = RangeList(starting_point, number_tunes, batch_size)
    /\ pc' = "main:loop"
    /\ UNCHANGED <<gstVars, soupVars, outcome, caller, runs, file, merge, parserVars>>

\* lines 309-312: get_session_tunes(batch_size, start=batch) is entered
MainNextBatch ==
    /\ pc = "main:loop"
    /\ batches # <<>>
    /\ pages' = batch_size
    /\ start' = Head(batches)
    /\ library' = PyNone
    /\ pc' = "gst:start"
    /\ UNCHANGED <<tune_list, num, soups, printed, soupVars, outcome, mainVars,
                   parserVars>>

\* line 309: no batch is left
MainReturns ==
    /\ pc = "main:loop"
    /\ batches = <<>>
    /\ outcome' = Returned
    /\ pc' = "done:main"
    /\ UNCHANGED <<gstVars, soupVars, mainVars, parserVars>>

\* lines 312-321: the batch is merged and written
MainMerge ==
    /\ pc = "main:merge"
    /\ tune_list # <<>>
    /\ LET lib == read_json(file)
           combined_data == concat(lib, tune_list)
       IN /\ IsUnique(Ids(combined_data))
          /\ file' = to_json(combined_data)
          /\ merge' = [read |-> lib, new |-> tune_list, raised |-> "none"]
    /\ batches' = Tail(batches)
    /\ pc' = "main:loop"
    /\ UNCHANGED <<gstVars, soupVars, outcome, caller, runs, parserVars>>

\* lines 312-321: set_index('id') raises KeyError for a batch without a
\* record, to_json raises ValueError for index labels that are not distinct
MainMergeRaises ==
    /\ pc = "main:merge"
    /\ LET lib == read_json(file)
           combined_data == concat(lib, tune_list)
       IN \/ /\ tune_list = <<>>
             /\ merge' = [read |-> <<>>, new |-> <<>>, raised |-> "KeyError"]
             /\ outcome' = Raise("KeyError")
          \/ /\ tune_list # <<>>
             /\ ~IsUnique(Ids(combined_data))
             /\ merge' = [read |-> lib, new |-> tune_list, raised |-> "ValueError"]
             /\ outcome' = Raise("ValueError")
    /\ pc' = "raised"
    /\ UNCHANGED <<gstVars, soupVars, caller, runs, batches, file, parserVars>>

\* line 325: the script is started again, tunes.json being what it left
MainRestart ==
    /\ pc \in {"done:main", "raised"}
    /\ runs < MaxRuns
    /\ runs' = runs + 1
    /\ pc' = "main:start"
    /\ pages' = 0 /\ start' = 0 /\ library' = PyNone /\ tune_list' = <<>>
    /\ num' = 0 /\ attempts' = 0 /\ awaiting' = FALSE /\ r' = Unbound
    /\ requests' = 0 /\ soups' = <<>> /\ printed' = NoPrint
    /\ outcome' = NotEnded /\ batches' = <<>> /\ merge' = NoMerge
    /\ UNCHANGED <<caller, file, parserVars>>

InitMain ==
    /\ pc = "main:start"
    /\ pages = 0 /\ start = 0 /\ library = PyNone /\ tune_list = <<>>
    /\ num = 0 /\ attempts = 0 /\ awaiting = FALSE /\ r = Unbound
    /\ requests = 0 /\ soups = <<>> /\ printed = NoPrint /\ outcome = NotEnded
    /\ caller = "main" /\ runs = 1
    /\ batches = <<>> /\ file = to_json(<<>>) /\ merge = NoMerge
    /\ arg = <<>> /\ result = PyNone

NextMain ==
    \/ MainStart
    \/ MainNextBatch
    \/ MainReturns
    \/ MainMerge
    \/ MainMergeRaises
    \/ MainRestart
    \/ GstEnter
    \/ GstIterate
    \/ RequestFails
    \/ RequestAnswers
    \/ GetSoupRaises
    \/ GetSoupReturns
    \/ StrainAppends
    \/ StrainRaises
    \/ GstReturn

SpecMain == InitMain /\ [][NextMain]_vars

(***************************************************************************)
(* Properties of the parsers                                               *)
(***************************************************************************)
IsNone(v) == v.kind = "None"
IsInt(v) == v.kind = "int"

EndsWith(s, suffix) ==
    /\ Len(suffix) <= Len(s)
    /\ SubSeq(s, Len(s) - Len(suffix) + 1, Len(s)) = suffix

\* C3: a document with no h1 element makes parse_h1 return the pair
\* ("H1 Error", "H1 Error").
C3_NoHeadingGivesH1Error ==
    (pc = "done:parse_h1" /\ arg.isdoc /\ ~arg.h1.present)
        => result.val = <<H1ErrorStr, H1ErrorStr>>

\* C4: for the heading text "Reel The Tune" whose hyperlink text is "Reel",
\* parse_h1 returns the type "Reel" and the name "The Tune".
C4_ReelTheTune ==
    (pc = "done:parse_h1" /\ arg.isdoc /\ arg.h1 = ReelTheTune)
        => result.val = <<<<"R", "e", "e", "l">>,
                          <<"T", "h", "e", " ", "T", "u", "n", "e">>>>

\* C5: parse_stats never raises; it returns None when there is no element
\* of class stats or when one of its hyperlinks has no data-tuneid, and
\* otherwise the list of the integer data-tuneid values in document order.
C5_StatsNeverRaises ==
    pc = "done:parse_stats" =>
        LET links == arg.stats.links
            missing == ~arg.isdoc \/ ~arg.stats.present
                       \/ \E i \in 1..Len(links) : ~links[i].has
            numeric == \A i \in 1..Len(links) : PyIntOf(links[i].v).kind = "int"
        IN /\ result.kind # "raise"
           /\ missing => IsNone(result)
           /\ (~missing /\ numeric) =>
                 /\ result.kind = "list"
                 /\ result.val = [i \in 1..Len(links) |-> DigitsValue(links[i].v)]

\* the digits of the first run of digits and commas of text that holds a digit
FirstNumber(text) ==
    LET i == CHOOSE k \in 1..Len(text) :
                 text[k] \in Digits /\ \A m \in 1..(k - 1) : text[m] \notin Digits
        lo == CHOOSE k \in 1..i :
                 /\ \A m \in k..i : text[m] \in DigitComma
                 /\ (k = 1 \/ text[k - 1] \notin DigitComma)
        hi == CHOOSE k \in i..Len(text) :
                 /\ \A m \in i..k : text[m] \in DigitComma
                 /\ (k = Len(text) \/ text[k + 1] \notin DigitComma)
    IN RemoveChar(SubSeq(text, lo, hi), ",")

\* C6: for a text with at least one digit, whatever stands before the
\* digits (commas included), parse_count returns the integer formed by the
\* digits of the first run of digits and commas; for a text with no digit
\* it returns None.
C6_CountOfEveryDigitText ==
    pc = "done:parse_count" =>
        IF \E i \in 1..Len(arg) : arg[i] \in Digits
        THEN IsInt(result) /\ result.val = DigitsValue(FirstNumber(arg))
        ELSE IsNone(result)

\* C9: parse_h1 strips the type label L from the heading text H as a
\* suffix: when H ends with L the name is H without that final L and
\* without trailing spaces, otherwise H without trailing spaces.
C9_NameIsSuffixStripped ==
    (pc = "done:parse_h1" /\ arg.isdoc /\ arg.h1.present /\ arg.h1.link) =>
        LET H == H1Text(arg.h1)
            L == arg.h1.label
        IN result.val[2] =
              IF EndsWith(H, L)
              THEN rstrip(SubSeq(H, 1, Len(H) - Len(L)), <<" ">>)
              ELSE rstrip(H, <<" ">>)

\* C10: in every record strain_soup builds, recordings, collections, sets
\* and books are integers and never null.
C10_CountsAreIntegers ==
    (pc = "done:strain_soup" /\ result.kind = "dict") =>
        /\ IsInt(result.val.recordings)
        /\ IsInt(result.val.collections)
        /\ IsInt(result.val.sets)
        /\ IsInt(result.val.books)

(***************************************************************************)
(* Properties of get_soup, get_session_tunes and main                      *)
(***************************************************************************)
Fetched(log) == SelectSeq(log, LAMBDA e : e.result = "soup")

\* C1: get_session_tunes(pages, start) attempts start .. start+pages-1 once
\* each in increasing order and returns one record per identifier whose
\* fetch succeeded, in that order, and none for a failed fetch; it always
\* returns.
C1_BatchReturnsFetchedRecords ==
    (pc \in {"done:gst", "raised"} /\ caller = "none" /\ library.kind = "None") =>
        /\ outcome = Returned
        /\ Ids(soups) = [i \in 1..pages |-> start + i - 1]
        /\ Ids(tune_list) = Ids(Fetched(soups))

\* C2: get_soup issues at most two requests, the second only after the
\* first raised; when both raise it fails with HTTPError, and
\* get_session_tunes skips the identifier and goes on with the next one.
C2_RetryOnceThenHTTPError ==
    /\ [](requests <= 2)
    /\ [][requests' = requests + 1 =>
            \/ requests = 0
            \/ requests = 1 /\ attempts = 1 /\ r = Unbound]_vars
    /\ [][(pc = "soup:try" /\ attempts = 2 /\ pc' # "soup:try") =>
            /\ soups'[Len(soups')].result = "HTTPError"
            /\ pc' = "gst:loop"
            /\ num' = num + 1
            /\ tune_list' = tune_list
            /\ outcome' = NotEnded]_vars

\* a call that skipped an identifier after two failed requests and
\* returned with the record of a later identifier
C2_Witness ==
    /\ pc = "done:gst"
    /\ tune_list # <<>>
    /\ \E i \in 1..Len(soups) :
          /\ soups[i].requests = 2
          /\ soups[i].failures = 2
          /\ soups[i].result = "HTTPError"
          /\ tune_list[Len(tune_list)].id > soups[i].id

\* C8: on every call, also with a non-empty library, the reported count is
\* the number of identifiers of this call whose records were extracted, and
\* the reported range is start .. start+pages-1.
C8_ReportedCountIsThisCall ==
    pc = "done:gst" =>
        /\ printed.count = Len(Fetched(soups))
        /\ printed.first = start
        /\ printed.last = start + pages - 1

\* C7 as amended: the merge appends and never replaces or deduplicates; a
\* merge that is written leaves the rows persisted before followed by the
\* records of the batch; the write raises exactly when an id would occur
\* twice and then leaves tunes.json as it was, so tunes.json never holds
\* two rows with the same id.
C7_MergeAppendsOrRaises ==
    /\ IsUnique(Ids(read_json(file)))
    /\ merge.raised = "none" => read_json(file) = merge.read \o merge.new
    /\ merge.raised = "ValueError" =>
          /\ ~IsUnique(Ids(merge.read \o merge.new))
          /\ read_json(file) = merge.read

\* the same batch is merged a second time
C7_Witness ==
    /\ merge.raised = "ValueError"
    /\ merge.new # <<>>
    /\ \A i \in 1..Len(merge.new) :
          \E j \in 1..Len(merge.read) : merge.read[j] = merge.new[i]
    /\ read_json(file) = merge.read

\* C7: after a batch is merged tunes.json holds every row persisted before
\* followed by every record of the batch, also when the batch was merged
\* before.
C7_MergeTwiceLeavesDuplicates ==
    merge.raised \in {"none", "ValueError"} =>
        read_json(file) = merge.read \o merge.new

====
